---- MODULE Spec2Model ----
(***************************************************************************)
(* Registration synchronizer of the rhiza workflow template.               *)
(*                                                                         *)
(* The registration script (main) loads a workflow definition, reads the   *)
(* per-(workflow, network) registration state, awaits syncRhiza, and then  *)
(* either reports a dry-run result or persists the new state.              *)
(* syncRhiza, readState, writeState and getStateFilePath are imported from *)
(* @arke-institute/rhiza/registration; their bodies are modelled from the  *)
(* specification (sections 4.2 - 4.5).                                     *)
(***************************************************************************)
EXTENDS Integers, Sequences, FiniteSets, TLC

\* Number of invocations of the script in one behaviour.
MaxRuns == 3

----------------------------------------------------------------------------
(* Workflow definitions *)

Networks == {"test", "main"}
WorkflowFiles == {"stamp-chain"}
Keys == WorkflowFiles \X Networks

\* Step names in step-name (lexicographic) order.
StepOrder == <<"s1", "s2">>

Done == [kind |-> "done", target |-> ""]
Pass(t) == [kind |-> "pass", target |-> t]
Step(k, th) == [klados |-> k, then |-> th]

\* s1 -pass-> s2 -done
F1 == [s1 |-> Step("W", Pass("s2")), s2 |-> Step("W", Done)]
\* as F1, second step run by another worker
F2 == [s1 |-> Step("W", Pass("s2")), s2 |-> Step("V", Done)]
\* both steps differ from F1
F3 == [s1 |-> Step("V", Pass("s2")), s2 |-> Step("V", Done)]
\* a single terminal step
F4 == [s1 |-> Step("W", Done)]
\* dangling reference: s2 is not a key of flow
FBad == [s1 |-> Step("W", Pass("s2"))]

Cfg(l, d, v, f) ==
  [label |-> l, description |-> d, version |-> v, entry |-> "s1", flow |-> f]

\* The definitions a workflow file resolves to: a base definition, the base
\* with each field changed alone, and definitions with several fields changed.
Configs ==
  { Cfg("A", "d1", "1.0", F1), Cfg("A", "d2", "1.0", F1),
    Cfg("B", "d1", "1.0", F1), Cfg("A", "d1", "2.0", F1),
    Cfg("A", "d1", "1.0", F2), Cfg("A", "d1", "1.0", F3),
    Cfg("A", "d1", "1.0", F4), Cfg("B", "d1", "2.0", F1),
    Cfg("B", "d2", "2.0", F3), Cfg("A", "d1", "1.0", FBad) }

----------------------------------------------------------------------------
(* Step Graph Validator *)

\* a validator that does not look at gather handoffs
Targeted_noGather == {"pass", "scatter"}

Targeted == {"pass", "scatter", "gather"}

\* entry is a key of flow and every pass/scatter/gather target is a key of flow
Validate(cfg) ==
  /\ cfg.entry \in DOMAIN cfg.flow
  /\ \A s \in DOMAIN cfg.flow :
       cfg.flow[s].then.kind \in Targeted => cfg.flow[s].then.target \in DOMAIN cfg.flow

----------------------------------------------------------------------------
(* Registration state and the Diff & Sync engine *)

\* An optional value is a sequence of length at most one.
Absent == <<>>
Some(v) == <<v>>

RegistrationState(id, coll, cfg) ==
  [rhiza_id |-> id, collection_id |-> coll,
   version |-> cfg.version, label |-> cfg.label, flow |-> cfg.flow]

FieldChange(f, from, to) == [field |-> f, from |-> from, to |-> to]

LabelChange(cfg, prior) ==
  IF cfg.label # prior.label
    THEN <<FieldChange(<<"label">>, Some(prior.label), Some(cfg.label))>>
    ELSE <<>>

VersionChange(cfg, prior) ==
  IF cfg.version # prior.version
    THEN <<FieldChange(<<"version">>, Some(prior.version), Some(cfg.version))>>
    ELSE <<>>

StepChange(name, cfg, prior) ==
  LET inOld == name \in DOMAIN prior.flow
      inNew == name \in DOMAIN cfg.flow
      old == IF inOld THEN Some(prior.flow[name]) ELSE Absent
      new == IF inNew THEN Some(cfg.flow[name]) ELSE Absent
  IN IF old # new THEN <<FieldChange(<<"flow", name>>, old, new)>> ELSE <<>>

RECURSIVE FlowChanges(_, _, _)
FlowChanges(i, cfg, prior) ==
  IF i > Len(StepOrder) THEN <<>>
  ELSE StepChange(StepOrder[i], cfg, prior) \o FlowChanges(i + 1, cfg, prior)

\* version reported before label
Diff_versionFirst(cfg, prior) ==
  VersionChange(cfg, prior) \o LabelChange(cfg, prior) \o FlowChanges(1, cfg, prior)

\* label, version, then per-step flow changes in step-name order
Diff(cfg, prior) ==
  LabelChange(cfg, prior) \o VersionChange(cfg, prior) \o FlowChanges(1, cfg, prior)

\* the decision of the engine: create, update or unchanged
Decide(cfg, priorState) ==
  IF priorState = Absent THEN [action |-> "create", changes |-> <<>>]
  ELSE LET changes == Diff(cfg, priorState[1])
       IN IF changes = <<>> THEN [action |-> "unchanged", changes |-> <<>>]
          ELSE [action |-> "update", changes |-> changes]

\* a dry-run result that does not carry the changes
DryRunResult_noChanges(d) ==
  [action |-> CASE d.action = "create" -> "would_create"
                [] d.action = "update" -> "would_update"
                [] OTHER -> "unchanged",
   changes |-> <<>>, state |-> Absent]

DryRunResult(d) ==
  [action |-> CASE d.action = "create" -> "would_create"
                [] d.action = "update" -> "would_update"
                [] OTHER -> "unchanged",
   changes |-> d.changes, state |-> Absent]

SyncResult(actionName, changes, st) ==
  [action |-> actionName, changes |-> changes, state |-> Some(st)]

NoResult == [action |-> "none", changes |-> <<>>, state |-> Absent]

----------------------------------------------------------------------------
(* The registration script *)

VARIABLES
  store,        \* state store: key -> optional RegistrationState
  pc,           \* position of main: idle, await_sync, resolved, rejected, exited
  runs,         \* invocations started so far
  isDryRun,     \* --dry-run given
  network,      \* "main" with --prod/--production, else "test"
  workflowName, \* workflow argument without .json
  config,       \* the resolved definition
  state,        \* what readState returned at the start of the run
  result,       \* what syncRhiza resolved with
  error,        \* what syncRhiza (or an earlier step) failed with, "" if nothing
  exitCode,     \* exit code of the finished run
  events,       \* side effects of the current run, in order
  storeAtStart, \* the store when the current run began
  createCalls,  \* remote create calls issued per key
  updateCalls,  \* remote update calls issued per key
  writes,       \* state writes per key
  remote,       \* the definition the remote side holds per key, if any
  prev,         \* summary of the previous run when this run repeats it
                \* (same definition, same key), NoPrev otherwise
  handledAs     \* the branch main took on the result: "dry_run", "apply", ""

\* the step graph validator applied to one definition
VARIABLES
  vDef,         \* the definition under validation
  vVerdict      \* pending, ok, or the DefinitionError raised

\* scripts/register.ts, which keeps its state in .rhiza-state.json
VARIABLES
  legFile,        \* .rhiza-state.json: missing, corrupt, or the saved state
  legPc,          \* idle, await_collection, await_rhiza, exited
  legRuns,        \* invocations started so far
  legWorkflow,    \* workflow argument without .json
  legNetwork,     \* ARKE_NETWORK
  legConfig,      \* the resolved workflow
  legState,       \* the state object main works on
  legEvents,      \* side effects of the current run, in order
  legExit,        \* exit code of the finished run
  legError,       \* why the run exited with 1, "" if it did not
  legFileAtStart, \* the file when the current run began
  legCollections, \* collections created on the remote side
  legRhizas       \* rhizas created on the remote side, per (workflow, network)

\* substituteEnvVars applied to one tree
VARIABLES
  sTree,          \* the input tree
  sEnv,           \* process.env
  sOut,           \* what the last call returned or threw
  sFirst,         \* what the first call returned or threw
  sCalls          \* calls made so far

regVars == <<store, pc, runs, isDryRun, network, workflowName, config, state,
             result, error, exitCode, events, storeAtStart, createCalls,
             updateCalls, writes, remote, prev, handledAs>>

valVars == <<vDef, vVerdict>>

legVars == <<legFile, legPc, legRuns, legWorkflow, legNetwork, legConfig,
             legState, legEvents, legExit, legError, legFileAtStart,
             legCollections, legRhizas>>

substVars == <<sTree, sEnv, sOut, sFirst, sCalls>>

\* what the registration script does not touch
nonRegVars == <<valVars, legVars, substVars>>

vars == <<regVars, nonRegVars>>

WorkflowArgs == {"", "--dry-run", "stamp-chain", "stamp-chain.json", "nofile"}

StartsWithDashes(arg) == arg \in {"--dry-run", "--prod", "--production"}

\* workflowArg.replace(/\.json$/, '')
StripJson(arg) == IF arg = "stamp-chain.json" THEN "stamp-chain" ELSE arg

\* fs.existsSync(path.join('workflows', name + '.json'))
FileExists(name) == name \in WorkflowFiles

\* getStateFilePath(`.rhiza-state-${workflowName}`, network)
getStateFilePath(name, net) == <<name, net>>

readState(stateFile) == store[stateFile]

Key == getStateFilePath(workflowName, network)

DefaultConfig ==
  [label |-> "A", description |-> "d1", version |-> "1.0", entry |-> "s1", flow |-> F1]

NoPrev ==
  [ran |-> FALSE, dryRun |-> FALSE, action |-> "none", changes |-> <<>>,
   priorState |-> Absent, error |-> "", exitCode |-> 0, events |-> <<>>]

\* the run that just finished, as seen by a run that repeats it
Summary ==
  [ran |-> TRUE, dryRun |-> isDryRun, action |-> result.action,
   changes |-> result.changes, priorState |-> state, error |-> error,
   exitCode |-> exitCode, events |-> events]

RegInit ==
  /\ store = [k \in Keys |-> Absent]
  /\ pc = "idle"
  /\ runs = 0
  /\ isDryRun = FALSE
  /\ network = "test"
  /\ workflowName = ""
  /\ config = DefaultConfig
  /\ state = Absent
  /\ result = NoResult
  /\ error = ""
  /\ exitCode = 0
  /\ events = <<>>
  /\ storeAtStart = [k \in Keys |-> Absent]
  /\ createCalls = [k \in Keys |-> 0]
  /\ updateCalls = [k \in Keys |-> 0]
  /\ writes = [k \in Keys |-> 0]
  /\ remote = [k \in Keys |-> Absent]
  /\ prev = NoPrev
  /\ handledAs = ""

CanStart == pc \in {"idle", "exited"} /\ runs < MaxRuns

BeginRun ==
  /\ runs' = runs + 1
  /\ storeAtStart' = store
  /\ result' = NoResult
  /\ handledAs' = ""
  /\ UNCHANGED <<store, createCalls, updateCalls, writes, remote>>
  /\ UNCHANGED nonRegVars

\* a main that reports the failure and carries on with the unresolved workflow
MainAbortEarly_continues ==
  /\ CanStart
  /\ \E keySet \in BOOLEAN, arg \in WorkflowArgs, resolves \in BOOLEAN :
       /\ \/ ~keySet
          \/ arg = "" \/ StartsWithDashes(arg)
          \/ ~FileExists(StripJson(arg))
          \/ ~resolves
       /\ error' = CASE ~keySet -> "ARKE_USER_KEY"
                     [] arg = "" \/ StartsWithDashes(arg) -> "usage"
                     [] ~FileExists(StripJson(arg)) -> "file_not_found"
                     [] OTHER -> "env_not_set"
  /\ BeginRun
  /\ prev' = NoPrev
  /\ isDryRun' = FALSE
  /\ network' = "test"
  /\ workflowName' = "stamp-chain"
  /\ config' = DefaultConfig
  /\ state' = readState(getStateFilePath("stamp-chain", "test"))
  /\ events' = <<"read">>
  /\ exitCode' = 0
  /\ pc' = "await_sync"

\* main exits with code 1 before the state is read: no API key, no workflow
\* argument, no workflow file, or a variable that does not resolve
MainAbortEarly ==
  /\ CanStart
  /\ \E keySet \in BOOLEAN, arg \in WorkflowArgs, resolves \in BOOLEAN :
       /\ \/ ~keySet
          \/ arg = "" \/ StartsWithDashes(arg)
          \/ ~FileExists(StripJson(arg))
          \/ ~resolves
       /\ error' = CASE ~keySet -> "ARKE_USER_KEY"
                     [] arg = "" \/ StartsWithDashes(arg) -> "usage"
                     [] ~FileExists(StripJson(arg)) -> "file_not_found"
                     [] OTHER -> "env_not_set"
  /\ BeginRun
  /\ prev' = NoPrev
  /\ isDryRun' = FALSE
  /\ network' = "test"
  /\ workflowName' = ""
  /\ config' = DefaultConfig
  /\ state' = Absent
  /\ events' = <<>>
  /\ exitCode' = 1
  /\ pc' = "exited"

\* main up to the await of syncRhiza: the definition is loaded and resolved,
\* the state of (workflowName, network) is read
MainBegin ==
  /\ CanStart
  /\ \E arg \in WorkflowArgs, isProduction \in BOOLEAN, dry \in BOOLEAN, cfg \in Configs :
       /\ arg # "" /\ ~StartsWithDashes(arg)
       /\ FileExists(StripJson(arg))
       /\ workflowName' = StripJson(arg)
       /\ network' = IF isProduction THEN "main" ELSE "test"
       /\ isDryRun' = dry
       /\ config' = cfg
       /\ state' = readState(getStateFilePath(workflowName', network'))
       /\ prev' = IF /\ pc = "exited"
                     /\ workflowName # ""
                     /\ cfg = config
                     /\ getStateFilePath(workflowName', network') = Key
                  THEN Summary ELSE NoPrev
  /\ BeginRun
  /\ error' = ""
  /\ exitCode' = 0
  /\ events' = <<"read">>
  /\ pc' = "await_sync"

\* the call without the dryRun option, and the call without the state read
SyncArgs_noDryRun ==
  [config |-> config, state |-> state, dryRun |-> FALSE, network |-> network]
SyncArgs_noState ==
  [config |-> config, state |-> Absent, dryRun |-> isDryRun, network |-> network]

\* the arguments main hands to syncRhiza
SyncArgs == [config |-> config, state |-> state, dryRun |-> isDryRun, network |-> network]

SyncKey == getStateFilePath(workflowName, SyncArgs.network)

\* identifiers handed out by the remote side
RECURSIVE SumCalls(_, _)
SumCalls(f, ks) ==
  IF ks = {} THEN 0
  ELSE LET k == CHOOSE x \in ks : TRUE IN f[k] + SumCalls(f, ks \ {k})

NextRemoteId == 1 + SumCalls(createCalls, Keys)

\* the remote side registers the definition
Register(def) == remote' = [remote EXCEPT ![SyncKey] = Some(def)]

Resolve(r) ==
  /\ result' = r
  /\ pc' = "resolved"
  /\ UNCHANGED error

Reject(e) ==
  /\ error' = e
  /\ pc' = "rejected"
  /\ UNCHANGED result

SyncFrame ==
  UNCHANGED <<store, runs, isDryRun, network, workflowName, config, state,
              exitCode, storeAtStart, writes, prev, handledAs, nonRegVars>>

\* syncRhiza rejects a definition with a dangling entry or handoff target
SyncInvalid ==
  /\ pc = "await_sync"
  /\ ~Validate(SyncArgs.config)
  /\ Reject("DefinitionError")
  /\ SyncFrame
  /\ UNCHANGED <<events, createCalls, updateCalls, remote>>

\* syncRhiza in dry-run mode: the decision only
SyncDryRun ==
  /\ pc = "await_sync"
  /\ Validate(SyncArgs.config)
  /\ SyncArgs.dryRun
  /\ Resolve(DryRunResult(Decide(SyncArgs.config, SyncArgs.state)))
  /\ SyncFrame
  /\ UNCHANGED <<events, createCalls, updateCalls, remote>>

\* syncRhiza in apply mode, nothing differs
SyncUnchanged ==
  /\ pc = "await_sync"
  /\ Validate(SyncArgs.config)
  /\ ~SyncArgs.dryRun
  /\ Decide(SyncArgs.config, SyncArgs.state).action = "unchanged"
  /\ Resolve(SyncResult("unchanged", <<>>, SyncArgs.state[1]))
  /\ SyncFrame
  /\ UNCHANGED <<events, createCalls, updateCalls, remote>>

\* syncRhiza in apply mode, no prior state: remote create, which may fail
SyncCreate ==
  /\ pc = "await_sync"
  /\ Validate(SyncArgs.config)
  /\ ~SyncArgs.dryRun
  /\ Decide(SyncArgs.config, SyncArgs.state).action = "create"
  /\ createCalls' = [createCalls EXCEPT ![SyncKey] = @ + 1]
  /\ events' = Append(events, "remote_create")
  /\ \/ /\ Register(SyncArgs.config)
        /\ Resolve(SyncResult("created", <<>>,
                RegistrationState(NextRemoteId, NextRemoteId, SyncArgs.config)))
     \/ /\ Reject("RegistrationError")
        /\ UNCHANGED remote
  /\ SyncFrame
  /\ UNCHANGED updateCalls

\* syncRhiza in apply mode, prior state differs: remote update, which may fail
SyncUpdate ==
  /\ pc = "await_sync"
  /\ Validate(SyncArgs.config)
  /\ ~SyncArgs.dryRun
  /\ Decide(SyncArgs.config, SyncArgs.state).action = "update"
  /\ updateCalls' = [updateCalls EXCEPT ![SyncKey] = @ + 1]
  /\ events' = Append(events, "remote_update")
  /\ \/ LET prior == SyncArgs.state[1]
            d == Decide(SyncArgs.config, SyncArgs.state)
        IN /\ Register(SyncArgs.config)
           /\ Resolve(SyncResult("updated", d.changes,
                 RegistrationState(prior.rhiza_id, prior.collection_id, SyncArgs.config)))
     \/ /\ Reject("RegistrationError")
        /\ UNCHANGED remote
  /\ SyncFrame
  /\ UNCHANGED createCalls

\* the predicate without the test for a state payload
isDryRunResult_anyUnchanged(r) ==
  \/ r.action = "would_create"
  \/ r.action = "would_update"
  \/ r.action = "unchanged"

\* the predicate without its would_update case
isDryRunResult_noWouldUpdate(r) ==
  \/ r.action = "would_create"
  \/ (r.action = "unchanged" /\ r.state = Absent)

isDryRunResult(r) ==
  \/ r.action = "would_create"
  \/ r.action = "would_update"
  \/ (r.action = "unchanged" /\ r.state = Absent)

\* the save condition inverted, narrowed to created, and dropped
ShouldWrite_inverted(action) == action = "unchanged"
ShouldWrite_createdOnly(action) == action = "created"
ShouldWrite_always(action) == TRUE

\* if (action !== 'unchanged') writeState(stateFile, newState)
ShouldWrite(action) == action # "unchanged"

\* main after syncRhiza resolved: a dry-run result is reported and main
\* returns; otherwise the new state is saved unless the action is unchanged.
\* Printing newState.rhiza_id of a result without state throws into the catch.
MainResume ==
  /\ pc = "resolved"
  /\ IF isDryRunResult(result)
       THEN /\ handledAs' = "dry_run"
            /\ exitCode' = 0
            /\ UNCHANGED <<store, writes, events>>
       ELSE /\ handledAs' = "apply"
            /\ IF ShouldWrite(result.action)
                 THEN /\ store' = [store EXCEPT ![Key] = result.state]
                      /\ writes' = [writes EXCEPT ![Key] = @ + 1]
                      /\ events' = Append(events, "write")
                 ELSE UNCHANGED <<store, writes, events>>
            /\ exitCode' = IF result.state = Absent THEN 1 ELSE 0
  /\ pc' = "exited"
  /\ UNCHANGED <<runs, isDryRun, network, workflowName, config, state, result,
                 error, storeAtStart, createCalls, updateCalls, remote, prev,
                 nonRegVars>>

\* a failed write that leaves the new state in the store all the same
MainWriteFails_written ==
  /\ pc = "resolved"
  /\ ~isDryRunResult(result)
  /\ ShouldWrite(result.action)
  /\ handledAs' = "apply"
  /\ error' = "StateWriteError"
  /\ exitCode' = 1
  /\ pc' = "exited"
  /\ store' = [store EXCEPT ![Key] = result.state]
  /\ UNCHANGED <<runs, isDryRun, network, workflowName, config, state, result,
                 events, storeAtStart, createCalls, updateCalls, writes, remote,
                 prev, nonRegVars>>

\* main after syncRhiza resolved with created or updated, and writeState
\* throws: nothing is stored, the catch block reports and exits with 1
MainWriteFails ==
  /\ pc = "resolved"
  /\ ~isDryRunResult(result)
  /\ ShouldWrite(result.action)
  /\ handledAs' = "apply"
  /\ error' = "StateWriteError"
  /\ exitCode' = 1
  /\ pc' = "exited"
  /\ UNCHANGED <<store, runs, isDryRun, network, workflowName, config, state,
                 result, events, storeAtStart, createCalls, updateCalls, writes,
                 remote, prev, nonRegVars>>

\* a catch block that records the attempted definition before exiting
MainCatch_saves ==
  /\ pc = "rejected"
  /\ exitCode' = 1
  /\ pc' = "exited"
  /\ store' = [store EXCEPT ![Key] = Some(RegistrationState(0, 0, config))]
  /\ UNCHANGED <<runs, isDryRun, network, workflowName, config, state,
                 result, error, events, storeAtStart, createCalls, updateCalls,
                 writes, remote, prev, handledAs, nonRegVars>>

\* main after syncRhiza rejected: the catch block reports and exits with 1
MainCatch ==
  /\ pc = "rejected"
  /\ exitCode' = 1
  /\ pc' = "exited"
  /\ UNCHANGED <<store, runs, isDryRun, network, workflowName, config, state,
                 result, error, events, storeAtStart, createCalls, updateCalls,
                 writes, remote, prev, handledAs, nonRegVars>>

----------------------------------------------------------------------------
(* The step graph validator on its own *)

\* number of step names a flow is built from
MaxStepNames == 2

NamePool == <<"s1", "s2", "s3", "s4">>

StepNames == {NamePool[i] : i \in 1..MaxStepNames}

\* a name that is never a key of flow
Stranger == "sx"

Handoffs ==
  {Done} \cup [kind : {"pass", "scatter", "gather"}, target : StepNames \cup {Stranger}]

FlowsOver(names) ==
  UNION {[D -> {Step("W", h) : h \in Handoffs}] : D \in SUBSET names}

Definitions ==
  [label : {"A"}, description : {"d1"}, version : {"1.0"},
   entry : StepNames \cup {Stranger}, flow : FlowsOver(StepNames)]

Pending == [status |-> "pending", step |-> "", ref |-> ""]
Valid == [status |-> "ok", step |-> "", ref |-> ""]
DefinitionError(step, ref) == [status |-> "error", step |-> step, ref |-> ref]

\* the errors the validator can raise on a definition: the entry, or a step
\* whose pass/scatter/gather target is not a key of flow
ValidationErrors(def) ==
  (IF def.entry \in DOMAIN def.flow THEN {} ELSE {DefinitionError("entry", def.entry)})
  \cup {DefinitionError(s, def.flow[s].then.target) :
          s \in {t \in DOMAIN def.flow :
                   /\ def.flow[t].then.kind \in Targeted
                   /\ def.flow[t].then.target \notin DOMAIN def.flow}}

ValInit ==
  /\ vDef \in Definitions
  /\ vVerdict = Pending

ValIdle ==
  /\ vDef = DefaultConfig
  /\ vVerdict = Pending

\* the validator runs on the definition
ValidateDefinition ==
  /\ vVerdict = Pending
  /\ IF ValidationErrors(vDef) = {}
       THEN vVerdict' = Valid
       ELSE vVerdict' \in ValidationErrors(vDef)
  /\ UNCHANGED <<vDef, regVars, legVars, substVars>>

ValNext == ValidateDefinition

----------------------------------------------------------------------------
(* scripts/register.ts *)

\* number of invocations of scripts/register.ts in one behaviour
MaxLegacyRuns == 3

LegWorkflows == {"stamp-chain", "other"}

LegArgs == {"", "stamp-chain", "stamp-chain.json", "other", "nofile"}

LegStripJson(arg) == IF arg = "stamp-chain.json" THEN "stamp-chain" ELSE arg

LegFileExists(name) == name \in LegWorkflows

LegConfigs == {Cfg("A", "d1", "1.0", F1), Cfg("A", "d1", "1.0", FBad)}

LegKeys == LegWorkflows \X Networks

\* the state object: {} has neither id
EmptyState == [collectionId |-> Absent, rhizaId |-> Absent]

MissingFile == [kind |-> "missing", content |-> EmptyState]
CorruptFile == [kind |-> "corrupt", content |-> EmptyState]
JsonFile(st) == [kind |-> "json", content |-> st]

\* try { JSON.parse(readFileSync(STATE_FILE)) } catch { return {} }
loadState(file) == IF file.kind = "json" THEN file.content ELSE EmptyState

\* writeFileSync(STATE_FILE, JSON.stringify(state))
saveState(st) == JsonFile(st)

LegNextId == 1 + legCollections + SumCalls(legRhizas, LegKeys)

LegInit ==
  /\ legFile = MissingFile
  /\ legPc = "idle"
  /\ legRuns = 0
  /\ legWorkflow = ""
  /\ legNetwork = "test"
  /\ legConfig = DefaultConfig
  /\ legState = EmptyState
  /\ legEvents = <<>>
  /\ legExit = 0
  /\ legError = ""
  /\ legFileAtStart = MissingFile
  /\ legCollections = 0
  /\ legRhizas = [k \in LegKeys |-> 0]

LegCanStart == legPc \in {"idle", "exited"} /\ legRuns < MaxLegacyRuns

\* main exits with code 1 before loadState: no API key, no workflow argument,
\* no workflow file, or a variable that does not resolve
LegAbortEarly ==
  /\ LegCanStart
  /\ \E keySet \in BOOLEAN, arg \in LegArgs, resolves \in BOOLEAN :
       /\ \/ ~keySet
          \/ arg = ""
          \/ ~LegFileExists(LegStripJson(arg))
          \/ ~resolves
       /\ legError' = CASE ~keySet -> "ARKE_USER_KEY"
                        [] arg = "" -> "usage"
                        [] ~LegFileExists(LegStripJson(arg)) -> "file_not_found"
                        [] OTHER -> "env_not_set"
  /\ legRuns' = legRuns + 1
  /\ legFileAtStart' = legFile
  /\ legWorkflow' = ""
  /\ legNetwork' = "test"
  /\ legConfig' = DefaultConfig
  /\ legState' = EmptyState
  /\ legEvents' = <<>>
  /\ legExit' = 1
  /\ legPc' = "exited"
  /\ UNCHANGED <<legFile, legCollections, legRhizas>>
  /\ UNCHANGED <<regVars, valVars, substVars>>

\* a rhiza check that ignores the id in the state and always creates
LegRhizaCheck_always(st, ev) ==
  /\ legEvents' = Append(ev, "create_rhiza")
  /\ legPc' = "await_rhiza"
  /\ UNCHANGED <<legFile, legExit>>

\* main from the rhiza check on, with state st and the events so far:
\* a known rhiza id is reported and the state saved; otherwise createRhiza
\* is called and awaited
LegRhizaCheck(st, ev) ==
  IF st.rhizaId # Absent
    THEN /\ legFile' = saveState(st)
         /\ legEvents' = Append(ev, "save")
         /\ legExit' = 0
         /\ legPc' = "exited"
    ELSE /\ legEvents' = Append(ev, "create_rhiza")
         /\ legPc' = "await_rhiza"
         /\ UNCHANGED <<legFile, legExit>>

\* main up to its first await: the workflow is loaded and resolved, the state
\* file is loaded, and createCollection is called unless the state has a
\* collection id
LegBegin ==
  /\ LegCanStart
  /\ \E arg \in LegArgs, net \in Networks, cfg \in LegConfigs :
       /\ arg # ""
       /\ LegFileExists(LegStripJson(arg))
       /\ legWorkflow' = LegStripJson(arg)
       /\ legNetwork' = net
       /\ legConfig' = cfg
  /\ legRuns' = legRuns + 1
  /\ legFileAtStart' = legFile
  /\ legError' = ""
  /\ legState' = loadState(legFile)
  /\ IF loadState(legFile).collectionId = Absent
       THEN /\ legEvents' = <<"load", "create_collection">>
            /\ legPc' = "await_collection"
            /\ UNCHANGED <<legFile, legExit>>
       ELSE LegRhizaCheck(loadState(legFile), <<"load">>)
  /\ UNCHANGED <<legCollections, legRhizas>>
  /\ UNCHANGED <<regVars, valVars, substVars>>

\* createCollection resolves: its id goes into the state object
LegCollectionCreated ==
  /\ legPc = "await_collection"
  /\ legCollections' = legCollections + 1
  /\ legState' = [legState EXCEPT !.collectionId = Some(LegNextId)]
  /\ LegRhizaCheck(legState', legEvents)
  /\ UNCHANGED <<legRuns, legWorkflow, legNetwork, legConfig, legError,
                 legFileAtStart, legRhizas>>
  /\ UNCHANGED <<regVars, valVars, substVars>>

\* createRhiza resolves: its id goes into the state object, the state is saved
LegRhizaCreated ==
  /\ legPc = "await_rhiza"
  /\ legRhizas' = [legRhizas EXCEPT ![<<legWorkflow, legNetwork>>] = @ + 1]
  /\ legState' = [legState EXCEPT !.rhizaId = Some(LegNextId)]
  /\ legFile' = saveState(legState')
  /\ legEvents' = Append(legEvents, "save")
  /\ legExit' = 0
  /\ legPc' = "exited"
  /\ UNCHANGED <<legRuns, legWorkflow, legNetwork, legConfig, legError,
                 legFileAtStart, legCollections>>
  /\ UNCHANGED <<regVars, valVars, substVars>>

\* a catch handler that saves what the run has learnt so far before exiting
LegCallFailed_saves ==
  /\ legPc \in {"await_collection", "await_rhiza"}
  /\ legError' = "RegistrationError"
  /\ legExit' = 1
  /\ legPc' = "exited"
  /\ legFile' = saveState(legState)
  /\ UNCHANGED <<legRuns, legWorkflow, legNetwork, legConfig, legState,
                 legEvents, legFileAtStart, legCollections, legRhizas>>
  /\ UNCHANGED <<regVars, valVars, substVars>>

\* createCollection or createRhiza rejects: main().catch exits with 1
LegCallFailed ==
  /\ legPc \in {"await_collection", "await_rhiza"}
  /\ legError' = "RegistrationError"
  /\ legExit' = 1
  /\ legPc' = "exited"
  /\ UNCHANGED <<legFile, legRuns, legWorkflow, legNetwork, legConfig, legState,
                 legEvents, legFileAtStart, legCollections, legRhizas>>
  /\ UNCHANGED <<regVars, valVars, substVars>>

\* between runs the saved file is damaged (truncated, hand-edited)
LegFileDamaged ==
  /\ legPc = "exited"
  /\ legFile.kind = "json"
  /\ legFile' = CorruptFile
  /\ UNCHANGED <<legPc, legRuns, legWorkflow, legNetwork, legConfig, legState,
                 legEvents, legExit, legError, legFileAtStart, legCollections,
                 legRhizas>>
  /\ UNCHANGED <<regVars, valVars, substVars>>

LegNext ==
  \/ LegAbortEarly
  \/ LegBegin
  \/ LegCollectionCreated
  \/ LegRhizaCreated
  \/ LegCallFailed
  \/ LegFileDamaged

----------------------------------------------------------------------------
(* substituteEnvVars *)

\* number of elements of a sequence, and of entries of a mapping
MaxWidth == 2

\* calls of substituteEnvVars on the same tree
MaxCalls == 2

\* JSON values. A string is a sequence of characters.
Str(chars) == [t |-> "str", v |-> chars]
Scalar(x) == [t |-> "scalar", v |-> x]
Arr(items) == [t |-> "arr", v |-> items]
Obj(entries) == [t |-> "obj", v |-> entries]

\* process.env: a variable is unset, or set to a string that may be empty
EnvNames == {<<"X">>, <<"Y">>}
EnvValues == {Absent, Some(<<>>), Some(<<"v">>)}
Envs == [EnvNames -> EnvValues]

\* process.env[name]
GetEnv(env, name) == IF name \in DOMAIN env THEN env[name] ELSE Absent

\* s.startsWith('$')
StartsWithDollar(chars) == Len(chars) >= 1 /\ chars[1] = "$"

Returned(tree) == [ok |-> TRUE, tree |-> tree, missing |-> <<>>]
NoTree == Scalar("undefined")
\* throw new Error(`Environment variable ${envVar} is not set`)
Thrown(envVar) == [ok |-> FALSE, tree |-> NoTree, missing |-> envVar]
NotCalled == [ok |-> FALSE, tree |-> NoTree, missing |-> <<"not called">>]

\* a string branch that lets an unresolved reference through as it is
SubstString_passThrough(chars, env) ==
  IF StartsWithDollar(chars)
    THEN LET value == GetEnv(env, Tail(chars))
         IN IF value = Absent \/ value = Some(<<>>)
              THEN Returned(Str(chars))
              ELSE Returned(Str(value[1]))
    ELSE Returned(Str(chars))

\* typeof obj === 'string': !value holds for undefined and for ''
SubstString(chars, env) ==
  IF StartsWithDollar(chars)
    THEN LET value == GetEnv(env, Tail(chars))
         IN IF value = Absent \/ value = Some(<<>>)
              THEN Thrown(Tail(chars))
              ELSE Returned(Str(value[1]))
    ELSE Returned(Str(chars))

\* a key looked up with || in place of ??: an empty value falls back too
SubstKey_emptyFallsBack(key, env) ==
  IF StartsWithDollar(key)
    THEN LET value == GetEnv(env, Tail(key))
         IN IF value = Absent \/ value = Some(<<>>) THEN key ELSE value[1]
    ELSE key

\* a key looked up without the fallback to the key itself
SubstKey_noFallback(key, env) ==
  IF StartsWithDollar(key)
    THEN LET value == GetEnv(env, Tail(key))
         IN IF value = Absent THEN <<"undefined">> ELSE value[1]
    ELSE key

\* key.startsWith('$') ? (process.env[key.slice(1)] ?? key) : key
SubstKey(key, env) ==
  IF StartsWithDollar(key)
    THEN LET value == GetEnv(env, Tail(key))
         IN IF value = Absent THEN key ELSE value[1]
    ELSE key

\* result[newKey] = value: an existing property is overwritten in place
Assign(entries, key, value) ==
  IF \E i \in 1..Len(entries) : entries[i][1] = key
    THEN [i \in 1..Len(entries) |->
            IF entries[i][1] = key THEN <<key, value>> ELSE entries[i]]
    ELSE Append(entries, <<key, value>>)

RECURSIVE substituteEnvVars(_, _)
RECURSIVE SubstItems(_, _)
RECURSIVE SubstEntries(_, _, _)

\* obj.map(substituteEnvVars)
SubstItems(items, env) ==
  IF items = <<>> THEN Returned(Arr(<<>>))
  ELSE LET h == substituteEnvVars(Head(items), env)
       IN IF ~h.ok THEN h
          ELSE LET r == SubstItems(Tail(items), env)
               IN IF ~r.ok THEN r ELSE Returned(Arr(<<h.tree>> \o r.tree.v))

\* for (const [key, value] of Object.entries(obj)) result[newKey] = ...;
\* res is the result object so far
SubstEntries(entries, env, res) ==
  IF entries = <<>> THEN Returned(Obj(res))
  ELSE LET newKey == SubstKey(Head(entries)[1], env)
           value == substituteEnvVars(Head(entries)[2], env)
       IN IF ~value.ok THEN value
          ELSE SubstEntries(Tail(entries), env, Assign(res, newKey, value.tree))

substituteEnvVars(obj, env) ==
  CASE obj.t = "str" -> SubstString(obj.v, env)
    [] obj.t = "arr" -> SubstItems(obj.v, env)
    [] obj.t = "obj" -> SubstEntries(obj.v, env, <<>>)
    [] OTHER -> Returned(obj)

\* the input trees: scalars, then sequences and mappings of scalars up to
\* MaxWidth, then one more level of nesting around the narrow ones
StringValues == {<<"a">>, <<"$">>, <<"$", "X">>, <<"$", "Y">>}
KeyValues == {<<"k">>, <<"v">>, <<"$", "X">>, <<"$", "Y">>}

Leaves == {Str(c) : c \in StringValues} \cup {Scalar("7"), Scalar("null")}

SeqsUpTo(S, n) == UNION {[1..m -> S] : m \in 0..n}

\* Object.entries of a mapping: its keys are distinct
EntriesOver(vals, n) ==
  {e \in SeqsUpTo(KeyValues \X vals, n) :
     \A i, j \in 1..Len(e) : i # j => e[i][1] # e[j][1]}

Containers(vals, n) ==
  {Arr(items) : items \in SeqsUpTo(vals, n)}
  \cup {Obj(entries) : entries \in EntriesOver(vals, n)}

Trees == Leaves \cup Containers(Leaves, MaxWidth) \cup Containers(Containers(Leaves, 1), 1)

SubstInit ==
  /\ sTree \in Trees
  /\ sEnv \in Envs
  /\ sOut = NotCalled
  /\ sFirst = NotCalled
  /\ sCalls = 0

SubstIdle ==
  /\ sTree = Scalar("null")
  /\ sEnv = [n \in EnvNames |-> Absent]
  /\ sOut = NotCalled
  /\ sFirst = NotCalled
  /\ sCalls = 0

\* a resolver that writes the substitutions into its argument
SubstCall_inPlace ==
  /\ sCalls < MaxCalls
  /\ sCalls' = sCalls + 1
  /\ sOut' = substituteEnvVars(sTree, sEnv)
  /\ sFirst' = IF sCalls = 0 THEN sOut' ELSE sFirst
  /\ sTree' = IF sOut'.ok THEN sOut'.tree ELSE sTree
  /\ UNCHANGED <<sEnv, regVars, valVars, legVars>>

\* substituteEnvVars(tree) is called: it returns a new tree or throws
SubstCall ==
  /\ sCalls < MaxCalls
  /\ sCalls' = sCalls + 1
  /\ sOut' = substituteEnvVars(sTree, sEnv)
  /\ sFirst' = IF sCalls = 0 THEN sOut' ELSE sFirst
  /\ UNCHANGED <<sTree, sEnv, regVars, valVars, legVars>>

SubstNext == SubstCall

----------------------------------------------------------------------------

\* scripts/register.ts alone: the other parts stay as constructed
InitLegacy == RegInit /\ ValIdle /\ SubstIdle /\ LegInit

SpecLegacy == InitLegacy /\ [][LegNext]_vars

\* the validator alone, on any definition of the bounded set
InitValidate == RegInit /\ ValInit /\ SubstIdle /\ LegInit

SpecValidate == InitValidate /\ [][ValNext]_vars

\* substituteEnvVars alone, on any tree and environment of the bounded sets
InitSubst == RegInit /\ ValIdle /\ LegInit /\ SubstInit

SpecSubst == InitSubst /\ [][SubstNext]_vars

Init ==
  /\ RegInit
  /\ ValIdle
  /\ LegInit
  /\ SubstIdle

Next ==
  \/ MainAbortEarly
  \/ MainBegin
  \/ SyncInvalid
  \/ SyncDryRun
  \/ SyncUnchanged
  \/ SyncCreate
  \/ SyncUpdate
  \/ MainResume
  \/ MainWriteFails
  \/ MainCatch

Spec == Init /\ [][Next]_vars

----------------------------------------------------------------------------
(* Properties *)

RECURSIVE Count(_, _)
Count(seq, x) ==
  IF seq = <<>> THEN 0
  ELSE (IF Head(seq) = x THEN 1 ELSE 0) + Count(Tail(seq), x)

\* the current run got as far as reading the state
Registering == pc \in {"await_sync", "resolved", "rejected", "exited"} /\ workflowName # ""

\* the current run finished with an outcome from syncRhiza
Completed == pc = "exited" /\ workflowName # "" /\ error = ""

\* C1: a non-dry-run registration that found no state and succeeded, repeated
\* with the same definition under the same key, gives created and then
\* unchanged, with one remote create call and one state write over both runs.
C1_Idempotent ==
  (/\ pc = "exited" /\ workflowName # ""
   /\ prev.ran /\ ~prev.dryRun /\ prev.priorState = Absent /\ prev.exitCode = 0
   /\ ~isDryRun)
  => /\ prev.action = "created"
     /\ result.action = "unchanged"
     /\ exitCode = 0
     /\ Count(prev.events \o events, "remote_create") = 1
     /\ Count(prev.events \o events, "remote_update") = 0
     /\ Count(prev.events \o events, "write") = 1

C1_Witness ==
  /\ pc = "exited" /\ prev.ran /\ ~prev.dryRun /\ prev.priorState = Absent
  /\ prev.action = "created" /\ ~isDryRun /\ result.action = "unchanged"
  /\ state = store[Key] /\ state # Absent

\* C2: a dry-run registration makes no remote call and no state write; the
\* store reads as it did before the run, whatever the outcome.
C2_DryRunPure ==
  (Registering /\ isDryRun)
  => /\ store = storeAtStart
     /\ events = <<"read">>
     /\ (pc = "exited" /\ error = ""
           => result.action \in {"would_create", "would_update", "unchanged"})

C2_Witness ==
  /\ pc = "exited" /\ isDryRun /\ result.action = "would_update"
  /\ storeAtStart[Key] # Absent /\ readState(Key) = storeAtStart[Key]

\* C3: a completed run with outcome created or updated made its remote call
\* and then wrote the state; the state read afterwards is the outcome's state.
C3_RemoteThenWrite ==
  (Completed /\ result.action \in {"created", "updated"})
  => /\ events = <<"read", IF result.action = "created" THEN "remote_create"
                                                        ELSE "remote_update", "write">>
     /\ readState(Key) = result.state
     /\ result.state # Absent
     /\ remote[Key] = Some(config)
     /\ exitCode = 0

C3_Witness ==
  /\ Completed /\ result.action = "updated"
  /\ readState(Key) = result.state /\ readState(Key) # storeAtStart[Key]

\* C4: a run whose outcome is unchanged, dry-run or not, makes no remote call
\* and leaves the store as it was.
C4_UnchangedFrame ==
  (Registering /\ pc \in {"resolved", "exited"} /\ result.action = "unchanged")
  => /\ store = storeAtStart
     /\ events = <<"read">>

C4_Witness ==
  /\ Completed /\ ~isDryRun /\ result.action = "unchanged" /\ store[Key] # Absent

\* C5: when the remote call fails the run exits with a failure and the store
\* keeps its value; if the state was absent, a retry of the same registration
\* reads absent state and decides create again.
C5_RemoteFailure ==
  /\ (pc = "exited" /\ error = "RegistrationError")
       => /\ exitCode = 1
          /\ store = storeAtStart
          /\ Count(events, "write") = 0
          /\ Count(events, "remote_create") + Count(events, "remote_update") = 1
  /\ (Registering /\ prev.ran /\ prev.error = "RegistrationError"
        /\ prev.priorState = Absent)
       => /\ state = Absent
          /\ (pc \in {"resolved", "exited"} /\ error = ""
                => result.action = IF isDryRun THEN "would_create" ELSE "created")

C5_Witness ==
  /\ Completed /\ prev.ran /\ prev.error = "RegistrationError"
  /\ prev.priorState = Absent /\ prev.exitCode = 1
  /\ ~isDryRun /\ result.action = "created" /\ createCalls[Key] = 2

\* the run has an outcome from syncRhiza
HasOutcome == Registering /\ pc \in {"resolved", "exited"} /\ error = ""

\* label, version and flow of the definition equal those of the stored state
SameAsStored(cfg, st) ==
  /\ cfg.label = st.label
  /\ cfg.version = st.version
  /\ cfg.flow = st.flow

\* C6: with no prior state the outcome is created in apply mode and
\* would_create in dry-run mode, with no field changes; the two-step chain
\* s1 -pass-> s2 -done passes validation.
C6_AbsentCreates ==
  /\ (HasOutcome /\ storeAtStart[Key] = Absent)
       => /\ result.action = IF isDryRun THEN "would_create" ELSE "created"
          /\ result.changes = <<>>
  /\ (Registering /\ config.entry = "s1" /\ config.flow = F1)
       => error # "DefinitionError"

C6_Witness ==
  /\ Completed /\ ~isDryRun /\ storeAtStart[Key] = Absent
  /\ config.entry = "s1" /\ config.flow = F1
  /\ result.action = "created" /\ result.changes = <<>>

\* C7: with a prior state the outcome is unchanged exactly when label,
\* version and flow equal the stored ones; otherwise it is updated (apply) or
\* would_update (dry run) with a non-empty list of changes.
C7_UnchangedIffEqual ==
  (HasOutcome /\ storeAtStart[Key] # Absent)
  => LET same == SameAsStored(config, storeAtStart[Key][1])
     IN /\ (result.action = "unchanged") <=> same
        /\ ~same => /\ result.action = IF isDryRun THEN "would_update" ELSE "updated"
                    /\ result.changes # <<>>
        /\ same => result.changes = <<>>

C7_Witness ==
  /\ Completed /\ storeAtStart[Key] # Absent
  /\ storeAtStart[Key][1].label = config.label
  /\ storeAtStart[Key][1].version = config.version
  /\ storeAtStart[Key][1].flow # config.flow
  /\ result.action = "updated" /\ Len(result.changes) = 1

\* C8: when label, version and flow equal those of the prior state and only
\* the description differs from the registered one, syncRhiza resolves with
\* unchanged without a remote call, and main writes no state.
C8_DescriptionOnly ==
  [][ (/\ Registering /\ pc \in {"await_sync", "resolved"}
       /\ store[Key] # Absent /\ remote[Key] # Absent
       /\ SameAsStored(config, store[Key][1])
       /\ remote[Key][1].description # config.description)
      => /\ pc = "await_sync" => (pc' = "resolved" /\ result'.action = "unchanged")
         /\ store' = store
         /\ remote' = remote
         /\ events' = events
         /\ writes' = writes
         /\ createCalls' = createCalls
         /\ updateCalls' = updateCalls ]_vars

C8_Witness ==
  /\ Completed /\ ~isDryRun /\ result.action = "unchanged"
  /\ store[Key] # Absent /\ remote[Key] # Absent
  /\ SameAsStored(config, store[Key][1])
  /\ remote[Key][1].description # config.description

\* the comparable fields, in report order
ComparableFields == <<"label">> :> 1 @@ <<"version">> :> 2 @@
                    [f \in {<<"flow", StepOrder[i]>> : i \in 1..Len(StepOrder)} |->
                       2 + (CHOOSE i \in 1..Len(StepOrder) : StepOrder[i] = f[2])]

FlowValue(flow, name) == IF name \in DOMAIN flow THEN Some(flow[name]) ELSE Absent

OldValue(f, st) ==
  IF f = <<"label">> THEN Some(st.label)
  ELSE IF f = <<"version">> THEN Some(st.version)
  ELSE FlowValue(st.flow, f[2])

NewValue(f, cfg) ==
  IF f = <<"label">> THEN Some(cfg.label)
  ELSE IF f = <<"version">> THEN Some(cfg.version)
  ELSE FlowValue(cfg.flow, f[2])

\* C9: the changes of an update or would_update hold one entry per differing
\* comparable field and none for an equal field, each with the stored and the
\* new value, ordered label, version, then steps in step-name order; from
\* {A, 1.0, F1} to {A, 2.0, F1} the only change is version from 1.0 to 2.0.
C9_DiffPrecise ==
  (HasOutcome /\ result.action \in {"updated", "would_update"})
  => LET ch == result.changes
         st == storeAtStart[Key][1]
     IN /\ \A i \in 1..Len(ch) :
             /\ ch[i].field \in DOMAIN ComparableFields
             /\ ch[i].from = OldValue(ch[i].field, st)
             /\ ch[i].to = NewValue(ch[i].field, config)
        /\ \A f \in DOMAIN ComparableFields :
             Cardinality({i \in 1..Len(ch) : ch[i].field = f})
               = IF OldValue(f, st) # NewValue(f, config) THEN 1 ELSE 0
        /\ \A i, j \in 1..Len(ch) :
             i < j => ComparableFields[ch[i].field] < ComparableFields[ch[j].field]
        /\ (/\ st.label = "A" /\ st.version = "1.0" /\ st.flow = F1
            /\ config.label = "A" /\ config.version = "2.0" /\ config.flow = F1)
             => ch = <<FieldChange(<<"version">>, Some("1.0"), Some("2.0"))>>

C9_Witness ==
  /\ Completed /\ result.action = "updated"
  /\ Len(result.changes) = 4
  /\ result.changes[1].field = <<"label">>
  /\ result.changes[4].field = <<"flow", "s2">>

ApplyAction(dryAction) ==
  CASE dryAction = "would_create" -> "created"
    [] dryAction = "would_update" -> "updated"
    [] dryAction = "unchanged" -> "unchanged"
    [] OTHER -> "none"

\* C10: an apply run that repeats a dry run (same definition, same key) has
\* the outcome the dry run announced: created for would_create, updated for
\* would_update, unchanged for unchanged, with the same list of changes.
C10_DryRunSameDecision ==
  (HasOutcome /\ ~isDryRun /\ prev.ran /\ prev.dryRun /\ prev.error = "")
  => /\ result.action = ApplyAction(prev.action)
     /\ result.changes = prev.changes
     /\ state = prev.priorState

C10_Witness ==
  /\ Completed /\ ~isDryRun /\ prev.ran /\ prev.dryRun
  /\ prev.action = "would_update" /\ result.action = "updated"
  /\ Len(result.changes) >= 2

\* C11: main takes the dry-run branch exactly when the run was invoked with
\* --dry-run; an apply result is created, updated or unchanged with a state
\* payload and takes the apply branch; a dry-run result has no state payload
\* and is never written.
C11_DisjointFamilies ==
  /\ HasOutcome => (isDryRunResult(result) <=> isDryRun)
  /\ (HasOutcome /\ pc = "exited")
       => /\ handledAs = IF isDryRun THEN "dry_run" ELSE "apply"
          /\ ~isDryRun => /\ result.action \in {"created", "updated", "unchanged"}
                          /\ result.state # Absent
          /\ isDryRun => /\ result.action \in {"would_create", "would_update", "unchanged"}
                         /\ result.state = Absent
                         /\ Count(events, "write") = 0
                         /\ store = storeAtStart

C11_Witness ==
  /\ Completed /\ ~isDryRun /\ result.action = "unchanged"
  /\ result.state # Absent /\ handledAs = "apply" /\ ~isDryRunResult(result)

\* the dangling references of a definition: the entry, or the target of a
\* handoff other than done, when it is not a key of flow
DanglingRefs(def) ==
  {s \in {def.entry} : s \notin DOMAIN def.flow}
  \cup {def.flow[s].then.target :
          s \in {t \in DOMAIN def.flow :
                   /\ def.flow[t].then.kind # "done"
                   /\ def.flow[t].then.target \notin DOMAIN def.flow}}

\* C12: validation fails with a DefinitionError naming a dangling reference if
\* the entry or a pass/scatter/gather target is not a key of flow, and succeeds
\* otherwise; done handoffs are never an error; {entry s1, flow {s1: pass s2}}
\* fails naming s2.
C12_ValidatorComplete ==
  vVerdict # Pending
  => /\ (vVerdict.status = "ok") <=> (DanglingRefs(vDef) = {})
     /\ (vVerdict.status = "ok") <=> Validate(vDef)
     /\ vVerdict.status = "error"
          => /\ vVerdict.ref \in DanglingRefs(vDef)
             /\ vVerdict.step \in DOMAIN vDef.flow
                  => /\ vDef.flow[vVerdict.step].then.kind # "done"
                     /\ vDef.flow[vVerdict.step].then.target = vVerdict.ref
     /\ (vDef.entry = "s1" /\ vDef.flow = FBad)
          => /\ vVerdict.status = "error"
             /\ vVerdict.ref = "s2"

C12_Witness ==
  /\ vDef.entry = "s1" /\ vDef.flow = FBad
  /\ vVerdict = DefinitionError("s1", "s2")

\* the current run of scripts/register.ts got as far as loading the state
LegRegistering == legPc # "idle" /\ legWorkflow # ""

LegRemoteCalls == Count(legEvents, "create_collection") + Count(legEvents, "create_rhiza")

\* C13: a run whose resolved definition has a dangling entry or handoff target
\* makes no remote create (collection or rhiza) and no state write, and exits
\* with a failure. Stated of scripts/register.ts.
C13_InvalidRejected ==
  (LegRegistering /\ ~Validate(legConfig))
  => /\ LegRemoteCalls = 0
     /\ legFile = legFileAtStart
     /\ legPc = "exited" => legExit = 1

\* the state a run for (name, net) reads from a file system holding file:
\* STATE_FILE is the same path for every workflow and network
LegRead(name, net, file) == loadState(file)

\* C18: a state file that is present but malformed makes the run abort: it is
\* not read as absent state, no remote create follows, the file is left alone.
\* Stated of scripts/register.ts.
C18_CorruptionFatal ==
  (LegRegistering /\ legFileAtStart.kind = "corrupt")
  => /\ LegRemoteCalls = 0
     /\ legFile = legFileAtStart
     /\ legPc = "exited" => legExit = 1

\* C19: a finished run for one (workflow, network) leaves the state read for
\* every other (workflow, network) as it was. Stated of scripts/register.ts.
C19_ScopedPerKey ==
  (LegRegistering /\ legPc = "exited")
  => \A k \in LegKeys \ {<<legWorkflow, legNetwork>>} :
       LegRead(k[1], k[2], legFile) = LegRead(k[1], k[2], legFileAtStart)

EarlyErrors == {"ARKE_USER_KEY", "usage", "file_not_found", "env_not_set"}

\* C20: a run that fails on the API key, the workflow argument, the workflow
\* file or variable resolution exits with 1 at once: no state read, no
\* validation or sync, no remote call, no state write, no definition in use.
C20_EarlyAbort ==
  error \in EarlyErrors
  => /\ pc = "exited"
     /\ exitCode = 1
     /\ events = <<>>
     /\ state = Absent
     /\ result = NoResult
     /\ handledAs = ""
     /\ workflowName = ""
     /\ store = storeAtStart

C20_Witness ==
  /\ pc = "exited" /\ error = "env_not_set" /\ exitCode = 1
  /\ events = <<>> /\ store = storeAtStart
  /\ \E k \in Keys : store[k] # Absent

\* the string values of a tree at any depth (values, not keys)
RECURSIVE StringsIn(_)
StringsIn(tree) ==
  CASE tree.t = "str" -> {tree.v}
    [] tree.t = "arr" -> UNION {StringsIn(tree.v[i]) : i \in 1..Len(tree.v)}
    [] tree.t = "obj" -> UNION {StringsIn(tree.v[i][2]) : i \in 1..Len(tree.v)}
    [] OTHER -> {}

\* $NAME with NAME unset
Unset(env, chars) == StartsWithDollar(chars) /\ GetEnv(env, Tail(chars)) = Absent

\* $NAME with NAME unset or set to the empty string
UnsetOrEmpty(env, chars) ==
  StartsWithDollar(chars) /\ GetEnv(env, Tail(chars)) \in {Absent, Some(<<>>)}

\* what a string value resolves to when its variable has a value
ResolvedString(env, chars) ==
  IF StartsWithDollar(chars) THEN Str(GetEnv(env, Tail(chars))[1]) ELSE Str(chars)

\* the original C14: resolution fails exactly when some string value is $NAME
\* with NAME unset, naming it and returning no tree; a present value replaces
\* the string, other strings are unchanged.
C14_FailsIffUnset ==
  sCalls >= 1
  => /\ ~sOut.ok <=> \E c \in StringsIn(sTree) : Unset(sEnv, c)
     /\ ~sOut.ok => /\ sOut.tree = NoTree
                    /\ \E c \in StringsIn(sTree) :
                         Unset(sEnv, c) /\ sOut.missing = Tail(c)
     /\ (sOut.ok /\ sTree.t = "str") => sOut.tree = ResolvedString(sEnv, sTree.v)

\* C14 (amended): resolution fails exactly when some string value at any
\* depth is $NAME with NAME unset or set to the empty string; it then names
\* such a NAME and returns no tree. Otherwise every $NAME value is replaced by
\* the value of NAME and every other string is returned unchanged.
C14_FailsIffUnsetOrEmpty ==
  sCalls >= 1
  => /\ ~sOut.ok <=> \E c \in StringsIn(sTree) : UnsetOrEmpty(sEnv, c)
     /\ ~sOut.ok => /\ sOut.tree = NoTree
                    /\ \E c \in StringsIn(sTree) :
                         UnsetOrEmpty(sEnv, c) /\ sOut.missing = Tail(c)
     /\ (sOut.ok /\ sTree.t = "str") => sOut.tree = ResolvedString(sEnv, sTree.v)
     /\ (sOut.ok /\ sTree.t = "arr")
          => \A i \in 1..Len(sTree.v) :
               sTree.v[i].t = "str"
                 => sOut.tree.v[i] = ResolvedString(sEnv, sTree.v[i].v)

C14_Witness ==
  /\ sCalls >= 1 /\ ~sOut.ok /\ sOut.missing = <<"X">>
  /\ sEnv[<<"X">>] = Some(<<>>)
  /\ sTree.t = "obj" /\ Len(sTree.v) = 1
  /\ sTree.v[1][2].t = "arr"

\* the key an input key is stored under
ExpectedKey(env, key) ==
  IF StartsWithDollar(key) /\ GetEnv(env, Tail(key)) # Absent
    THEN GetEnv(env, Tail(key))[1]
    ELSE key

\* C15: a key $NAME is replaced by the value of NAME when NAME is set and is
\* left as it is when NAME is unset, and an unset key never makes resolution
\* fail; a string value $NAME with NAME unset does.
C15_KeyValueAsymmetry ==
  sCalls >= 1
  => /\ (sTree.t = "obj" /\ sOut.ok)
          => {sOut.tree.v[i][1] : i \in 1..Len(sOut.tree.v)}
               = {ExpectedKey(sEnv, sTree.v[i][1]) : i \in 1..Len(sTree.v)}
     /\ (sTree.t = "obj" /\ \A c \in StringsIn(sTree) : ~UnsetOrEmpty(sEnv, c))
          => sOut.ok
     /\ (sTree.t = "str" /\ Unset(sEnv, sTree.v)) => ~sOut.ok

C15_Witness ==
  /\ sCalls >= 1 /\ sOut.ok /\ sTree.t = "obj" /\ Len(sTree.v) = 2
  /\ sTree.v[1][1] = <<"$", "X">> /\ sTree.v[2][1] = <<"$", "Y">>
  /\ sEnv[<<"X">>] = Some(<<"v">>) /\ sEnv[<<"Y">>] = Absent
  /\ sOut.tree.v[1][1] = <<"v">> /\ sOut.tree.v[2][1] = <<"$", "Y">>

\* out has the shape of in: sequences keep their length and positions,
\* mappings keep one entry per input entry, other scalars are unchanged
RECURSIVE SameShape(_, _, _)
SameShape(in, out, env) ==
  CASE in.t = "arr" ->
         /\ out.t = "arr"
         /\ Len(out.v) = Len(in.v)
         /\ \A i \in 1..Len(in.v) : SameShape(in.v[i], out.v[i], env)
    [] in.t = "obj" ->
         /\ out.t = "obj"
         /\ Len(out.v) = Len(in.v)
         /\ \A i \in 1..Len(in.v) :
              /\ out.v[i][1] = ExpectedKey(env, in.v[i][1])
              /\ SameShape(in.v[i][2], out.v[i][2], env)
    [] in.t = "str" -> out = ResolvedString(env, in.v)
    [] OTHER -> out = in

\* C16: when resolution succeeds the output has the shape of the input.
C16_ShapePreserved ==
  (sCalls >= 1 /\ sOut.ok) => SameShape(sTree, sOut.tree, sEnv)

EmptyNames(env) == {n \in EnvNames : env[n] = Some(<<>>)}

\* C25: with NAME set to the empty string, a string value $NAME fails
\* resolution as an unset NAME does (the error names NAME, no tree is
\* returned), while a mapping key $NAME is replaced by the empty-string key.
C25_EmptyValueVsKey ==
  sCalls >= 1
  => \A n \in EmptyNames(sEnv) :
       /\ sTree = Str(<<"$">> \o n)
            => /\ ~sOut.ok
               /\ sOut.missing = n
               /\ sOut.tree = NoTree
       /\ (/\ sTree.t = "obj" /\ Len(sTree.v) = 1
           /\ sTree.v[1][1] = <<"$">> \o n
           /\ sTree.v[1][2].t \notin {"str", "arr", "obj"})
            => /\ sOut.ok
               /\ sOut.tree = Obj(<< <<(<<>>), sTree.v[1][2]>> >>)

C25_Witness ==
  /\ sCalls >= 1 /\ sOut.ok
  /\ sEnv[<<"X">>] = Some(<<>>)
  /\ sTree.t = "obj" /\ Len(sTree.v) = 1
  /\ sTree.v[1][1] = <<"$", "X">>
  /\ sOut.tree.t = "obj" /\ Len(sOut.tree.v) = 1
  /\ sOut.tree.v[1][1] = <<>>

LegBetweenRuns == legPc \in {"idle", "exited"}

\* C24: createCollection is called only when the loaded state has no
\* collectionId and createRhiza only when it has no rhizaId; a first run that
\* succeeds creates one collection and one rhiza and saves both ids; and while
\* the saved file is retained no later step creates anything or changes it.
C24_CreateOnce ==
  [][ /\ (LegBetweenRuns /\ legPc' = "await_collection")
           => loadState(legFile).collectionId = Absent
      /\ (legPc # "await_rhiza" /\ legPc' = "await_rhiza")
           => legState'.rhizaId = Absent
      /\ (legRuns' = 1 /\ legPc # "exited" /\ legPc' = "exited" /\ legExit' = 0)
           => /\ legCollections' = 1
              /\ SumCalls(legRhizas', LegKeys) = 1
              /\ legFile'.kind = "json"
              /\ legFile'.content.collectionId # Absent
              /\ legFile'.content.rhizaId # Absent
      /\ (legFile.kind = "json" /\ legFile'.kind = "json")
           => /\ legFile' = legFile
              /\ legCollections' = legCollections
              /\ legRhizas' = legRhizas ]_vars

C24_Witness ==
  /\ legRuns >= 2 /\ legPc = "exited" /\ legExit = 0
  /\ legEvents = <<"load", "save">>
  /\ legFile.kind = "json" /\ legFile = legFileAtStart
  /\ legCollections = 1 /\ SumCalls(legRhizas, LegKeys) = 1

\* C26: the state file is written only when a run ends successfully, with
\* both ids in it; a run that ends in a failed createCollection or
\* createRhiza leaves the file as it was before the run, and a run that
\* loads the empty state calls createCollection.
C26_SaveOnlyAtEnd ==
  [][ /\ (legFile' # legFile /\ legFile'.kind = "json")
           => /\ legPc' = "exited" /\ legExit' = 0
              /\ legFile' = JsonFile(legState')
              /\ legState'.collectionId # Absent
              /\ legState'.rhizaId # Absent
              /\ Count(legEvents', "save") = 1
      /\ (legPc # "exited" /\ legPc' = "exited" /\ legExit' = 1)
           => /\ legFile' = legFileAtStart'
              /\ Count(legEvents', "save") = 0
      /\ (LegBetweenRuns /\ ~LegBetweenRuns' /\ loadState(legFile) = EmptyState)
           => /\ legPc' = "await_collection"
              /\ legEvents' = <<"load", "create_collection">> ]_vars

C26_Witness ==
  /\ legRuns = 2 /\ legPc = "await_collection"
  /\ legCollections = 1
  /\ legFile = MissingFile
  /\ legState = EmptyState

\* C22: once a state is stored under a key it stays stored and no step
\* issues a remote create for that key; a run that read a stored state has an
\* outcome other than create; and a completed created outcome is stored.
C22_CreateAtMostOnce ==
  [][ /\ \A k \in Keys :
           store[k] # Absent
             => /\ store'[k] # Absent
                /\ createCalls'[k] = createCalls[k]
      /\ (HasOutcome' /\ storeAtStart'[Key'] # Absent)
           => /\ result'.action \in {"updated", "would_update", "unchanged"}
              /\ Count(events', "remote_create") = 0
      /\ (Completed' /\ result'.action = "created")
           => /\ store'[Key'] = result'.state
              /\ store'[Key'] # Absent ]_vars

C22_Witness ==
  /\ runs = 3 /\ Completed /\ ~isDryRun
  /\ result.action = "updated"
  /\ storeAtStart[Key] # Absent
  /\ createCalls[Key] = 1
  /\ updateCalls[Key] = 2

\* C23: when the remote create succeeded and the state write failed, the run
\* exits with a failure and the store still reads absent although the remote
\* side holds the definition; the next registration of the same definition
\* under the same key reads absent state and issues a second remote create.
C23_CrashWindow ==
  /\ (pc = "exited" /\ error = "StateWriteError" /\ state = Absent)
       => /\ ~isDryRun
          /\ result.action = "created"
          /\ events = <<"read", "remote_create">>
          /\ exitCode = 1
          /\ store = storeAtStart
          /\ readState(Key) = Absent
          /\ remote[Key] = Some(config)
  /\ (Registering /\ prev.ran /\ prev.error = "StateWriteError"
        /\ prev.priorState = Absent /\ ~isDryRun /\ pc # "await_sync")
       => /\ state = Absent
          /\ Count(events, "remote_create") = 1
          /\ createCalls[Key] >= 2
          /\ error \in {"", "StateWriteError"} => result.action = "created"

C23_Witness ==
  /\ Completed /\ ~isDryRun
  /\ prev.ran /\ prev.error = "StateWriteError" /\ prev.priorState = Absent
  /\ prev.action = "created"
  /\ result.action = "created"
  /\ createCalls[Key] = 2
  /\ store[Key] # Absent

====
